---- MODULE Spec2Model ----
(***************************************************************************)
(* A model of gocontext (src/main.go): the selection engine                *)
(* (categorizeIncludesExcludes, filterPackages), the staleness oracle      *)
(* (needsDocUpdate, extractDocumentation) and the run that composes them   *)
(* (main).                                                                 *)
(*                                                                         *)
(* Go strings are sequences of one-character strings, so that prefix       *)
(* tests, replacements and path cleaning are computed character by         *)
(* character as the Go library computes them.                              *)
(***************************************************************************)
EXTENDS Integers, Sequences, FiniteSets, TLC

(***************************************************************************)
(* Strings                                                                 *)
(***************************************************************************)
Slash == "/"

\* strings.HasPrefix(s, p)
HasPrefix(s, p) == Len(p) <= Len(s) /\ SubSeq(s, 1, Len(p)) = p

\* strings.TrimPrefix(s, p)
TrimPrefix(s, p) == IF HasPrefix(s, p) THEN SubSeq(s, Len(p) + 1, Len(s)) ELSE s

\* strings.Replace(s, "/", "_", -1)
ReplaceSlash(s) == [i \in 1..Len(s) |-> IF s[i] = Slash THEN "_" ELSE s[i]]

\* strings.Split(s, "/"): the segments between the slashes, empty ones included
RECURSIVE SplitAcc(_, _, _)
SplitAcc(s, cur, acc) ==
    IF s = <<>> THEN Append(acc, cur)
    ELSE IF Head(s) = Slash THEN SplitAcc(Tail(s), <<>>, Append(acc, cur))
    ELSE SplitAcc(Tail(s), Append(cur, Head(s)), acc)

SplitSlash(s) == SplitAcc(s, <<>>, <<>>)

\* strings.Join(segs, "/")
RECURSIVE JoinSlash(_)
JoinSlash(segs) ==
    IF segs = <<>> THEN <<>>
    ELSE IF Len(segs) = 1 THEN segs[1]
    ELSE segs[1] \o <<Slash>> \o JoinSlash(Tail(segs))

Dot == <<".">>
DotDot == <<".", ".">>

\* The element loop of path.Clean: empty and "." elements are dropped, ".."
\* removes the element before it (or is kept, in a path that is not rooted and
\* has nothing left to remove).
RECURSIVE CleanSegs(_, _, _)
CleanSegs(segs, rooted, out) ==
    IF segs = <<>> THEN out
    ELSE LET seg == Head(segs)
             rest == Tail(segs)
         IN IF seg = <<>> \/ seg = Dot THEN CleanSegs(rest, rooted, out)
            ELSE IF seg = DotDot
                 THEN IF Len(out) > 0 /\ out[Len(out)] # DotDot
                      THEN CleanSegs(rest, rooted, SubSeq(out, 1, Len(out) - 1))
                      ELSE IF rooted THEN CleanSegs(rest, rooted, out)
                      ELSE CleanSegs(rest, rooted, Append(out, seg))
                 ELSE CleanSegs(rest, rooted, Append(out, seg))

\* path.Clean(p)
Clean(p) ==
    IF p = <<>> THEN Dot
    ELSE LET rooted == p[1] = Slash
             body == JoinSlash(CleanSegs(SplitSlash(p), rooted, <<>>))
             res == IF rooted THEN <<Slash>> \o body ELSE body
         IN IF res = <<>> THEN Dot ELSE res

\* path.Join(a, b): empty elements are ignored, the rest joined and cleaned
PathJoin(a, b) ==
    IF a = <<>> /\ b = <<>> THEN <<>>
    ELSE IF a = <<>> THEN Clean(b)
    ELSE IF b = <<>> THEN Clean(a)
    ELSE Clean(a \o <<Slash>> \o b)

\* string constants used below
M == <<"m">>
A == <<"a">>
MA == <<"m", "/", "a">>
MAA == <<"m", "/", "a", "a">>
MA_A == <<"m", "/", "a", "/", "a">>
AslashA == <<"a", "/", "a">>

(***************************************************************************)
(* Bounds and input universes                                              *)
(***************************************************************************)
\* longest discovered package list and longest -include / -exclude list
MaxPkgs == 2
MaxTokens == 2

\* go.mod's module line, or "" when it cannot be read (main.go:55-58)
ModuleNames == {<<>>, M}

\* import paths `go list ./...` may print
PackageIds == {M, MA, MAA, MA_A, A}

\* tokens of the -include / -exclude flags: directories, packages, a sibling
\* sharing a leading string, rooted, trailing-slash and dot-segment spellings
Tokens == {A, <<"a", "a">>, M, MA, <<"m", "/", "a", "/">>, <<"/", "a">>,
           <<"a", "/">>, <<"a", "/", ".", ".">>, <<".", "/", "a">>, DotDot}

\* sequences over S of length at most n
RECURSIVE SeqsUpTo(_, _)
SeqsUpTo(S, n) ==
    IF n = 0 THEN {<<>>}
    ELSE LET shorter == SeqsUpTo(S, n - 1)
         IN shorter \cup {Append(q, x) : q \in {r \in shorter : Len(r) = n - 1}, x \in S}

Range(q) == {q[i] : i \in 1..Len(q)}
NoRepeat(q) == \A i, j \in 1..Len(q) : q[i] = q[j] => i = j

(***************************************************************************)
(* The project on disk                                                     *)
(***************************************************************************)
\* the absolute project path (main.go:41)
ProjectPath == <<"/", "p">>

GoFile(c) == <<c, ".", "g", "o">>
ReadmeName == <<"R", "E", "A", "D", "M", "E", ".", "m", "d">>
InDir(d, name) == d \o <<Slash>> \o name

\* The files and directories below the project path, by their relative
\* paths, in the order filepath.Walk visits them (lexical, a directory before
\* its content).  The root package m, m/a with a package m/a/a below it, and
\* the sibling m/aa.
Tree ==
    << [rel |-> <<>>, dir |-> TRUE],
       [rel |-> ReadmeName, dir |-> FALSE],
       [rel |-> A, dir |-> TRUE],
       [rel |-> InDir(A, ReadmeName), dir |-> FALSE],
       [rel |-> <<"a", "/", "a">>, dir |-> TRUE],
       [rel |-> InDir(<<"a", "/", "a">>, ReadmeName), dir |-> FALSE],
       [rel |-> InDir(<<"a", "/", "a">>, GoFile("y")), dir |-> FALSE],
       [rel |-> InDir(A, GoFile("x")), dir |-> FALSE],
       [rel |-> InDir(A, GoFile("z")), dir |-> FALSE],
       [rel |-> <<"a", "a">>, dir |-> TRUE],
       [rel |-> InDir(<<"a", "a">>, GoFile("z")), dir |-> FALSE],
       [rel |-> GoFile("x"), dir |-> FALSE] >>

\* `go list -f {{.Dir}} pkg`: the directory of each package of the project
PkgDirs == (M :> <<>>) @@ (MA :> A) @@ (MA_A :> <<"a", "/", "a">>) @@ (MAA :> <<"a", "a">>)

\* `go list ./...` in the project
ProjectPackages == <<M, MA, MA_A, MAA>>

\* the absolute path of a relative one
Abs(rel) == IF rel = <<>> THEN ProjectPath ELSE ProjectPath \o <<Slash>> \o rel

\* filepath.Rel(projectPath, path) for a path at or below the project path
Rel(path) ==
    IF path = ProjectPath THEN Dot ELSE SubSeq(path, Len(ProjectPath) + 2, Len(path))

\* filepath.IsAbs
IsAbs(p) == p # <<>> /\ p[1] = Slash

\* info.Name(): the last element of a path
BaseName(p) == LET segs == SplitSlash(p) IN segs[Len(segs)]

\* filepath.Ext: the suffix of the name from its last dot on, "" without a dot
RECURSIVE ExtFrom(_, _)
ExtFrom(name, i) ==
    IF i = 0 THEN <<>>
    ELSE IF name[i] = "." THEN SubSeq(name, i, Len(name))
    ELSE ExtFrom(name, i - 1)

Ext(name) == ExtFrom(name, Len(name))

\* strings.ToLower on the letters that occur in the file names
LowerChar(c) ==
    CASE c = "R" -> "r" [] c = "E" -> "e" [] c = "A" -> "a" [] c = "D" -> "d"
      [] c = "M" -> "m" [] OTHER -> c

ToLower(name) == [i \in 1..Len(name) |-> LowerChar(name[i])]

\* main.go:618-623
Extensions ==
    { <<".", "g", "o">>, <<".", "p", "r", "o", "t", "o">>, <<".", "t", "m", "p", "l">>,
      <<".", "t", "x", "t">> }

VARIABLES
    moduleName,       \* main.go:55
    allPackages,      \* what `go list ./...` prints, read at main.go:123
    includeList,      \* main.go:92
    excludeList,      \* main.go:93
    includeDirsList,  \* main.go:96
    includePkgsList,  \* main.go:96, extended at main.go:155
    excludeDirsList,  \* main.go:97
    excludePkgsList,  \* main.go:97
    packages,         \* main.go:131
    cleanFlag,        \* main.go:22
    pc,               \* position in main
    idx,              \* position of the loops at main.go:138 and main.go:159
    runNo,            \* how many times the tool has been started
    isGitRepo,        \* main.go:107
    pkgCache,         \* main.go:363
    processedDirs,    \* main.go:151
    outDir,           \* the doc files of the sync directory: name -> modification time
    links,            \* the symlinks of the sync directory: name -> target
    clock,            \* the time of day
    hasDocGo,         \* package -> its directory holds a doc.go
    dirty,            \* package -> git status reports changes in its directory
    commitTime,       \* package -> time of the last commit touching its directory
    docOutcome,       \* package -> `go doc` prints its doc ("ok"), or fails or prints nothing
    ignored,          \* the relative paths `git check-ignore` reports ignored
    last,             \* the most recent call of extractDocumentation
    regen,            \* package -> its doc was written after its last commit or edit
    succ1,            \* packages whose doc was written by the first run
    names1,           \* the doc file names in the sync directory after the first run
    changed,          \* the sources changed since the first run started
    faults,           \* how many queries, writes and commands have failed so far
    pending,          \* sources whose output file names are still to be derived
    named,            \* the sources named so far, each with its output file name
    collected         \* the directories handed to symlinkDirectoryFiles, in order

inputVars == <<moduleName, allPackages, includeList, excludeList, cleanFlag>>
listVars == <<includeDirsList, includePkgsList, excludeDirsList, excludePkgsList>>
envVars == <<isGitRepo, hasDocGo, dirty, commitTime, docOutcome, ignored, clock>>
histVars == <<last, regen, succ1, names1, changed, faults>>
nameVars == <<pending, named>>
callVars == <<collected>>
vars == <<inputVars, listVars, packages, pc, idx, runNo, pkgCache, processedDirs,
          outDir, links, envVars, histVars, nameVars, callVars>>

NoCall == [pkg |-> <<>>]

\* the empty sync directory
Empty == <<>>

(***************************************************************************)
(* categorizeIncludesExcludes (main.go:203-215)                            *)
(***************************************************************************)
IsPackageTokenNoSlash(item, module) == HasPrefix(item, module) \/ item = module

\* the test of main.go:207
IsPackageToken(item, module) ==
    HasPrefix(item, module \o <<Slash>>) \/ item = module

RECURSIVE CategorizeLoop(_, _, _, _)
CategorizeLoop(items, module, dirs, pkgs) ==
    IF items = <<>> THEN [dirs |-> dirs, pkgs |-> pkgs]
    ELSE IF IsPackageToken(Head(items), module)
         THEN CategorizeLoop(Tail(items), module, dirs, Append(pkgs, Head(items)))
         ELSE CategorizeLoop(Tail(items), module, Append(dirs, Head(items)), pkgs)

categorizeIncludesExcludes(items, module) == CategorizeLoop(items, module, <<>>, <<>>)

(***************************************************************************)
(* filterPackages (main.go:335-361)                                        *)
(***************************************************************************)
\* main.go:342-344: each excluded directory joined under the module name
RECURSIVE AppendJoined(_, _, _)
AppendJoined(exclPkgs, exclDirs, module) ==
    IF exclDirs = <<>> THEN exclPkgs
    ELSE AppendJoined(Append(exclPkgs, PathJoin(module, Head(exclDirs))),
                      Tail(exclDirs), module)

MatchesExclusionExact(pkg, excl) == pkg = excl

\* main.go:351
MatchesExclusion(pkg, excl) == HasPrefix(pkg, excl)

\* main.go:349-354: the inner loop, which does not stop at the first match
RECURSIVE ExcludedLoop(_, _, _)
ExcludedLoop(pkg, excls, excluded) ==
    IF excls = <<>> THEN excluded
    ELSE ExcludedLoop(pkg, Tail(excls),
                      IF MatchesExclusion(pkg, Head(excls)) THEN TRUE ELSE excluded)

RECURSIVE FilterLoopStickyFlag(_, _, _, _)
FilterLoopStickyFlag(pkgs, excls, filtered, excluded) ==
    IF pkgs = <<>> THEN filtered
    ELSE LET e == ExcludedLoop(Head(pkgs), excls, excluded)
         IN FilterLoopStickyFlag(Tail(pkgs), excls,
                IF ~e THEN Append(filtered, Head(pkgs)) ELSE filtered, e)

\* main.go:346-358: the outer loop; `excluded` is the flag's value before the
\* iteration, which main.go:349 resets
RECURSIVE FilterLoop(_, _, _, _)
FilterLoop(pkgs, excls, filtered, excluded) ==
    IF pkgs = <<>> THEN filtered
    ELSE LET e == ExcludedLoop(Head(pkgs), excls, FALSE)
         IN FilterLoop(Tail(pkgs), excls,
                IF ~e THEN Append(filtered, Head(pkgs)) ELSE filtered, e)

filterPackages(pkgs, exclDirs, exclPkgs, module) ==
    IF Len(exclDirs) = 0 /\ Len(exclPkgs) = 0 THEN pkgs
    ELSE FilterLoop(pkgs, AppendJoined(exclPkgs, exclDirs, module), <<>>, FALSE)

(***************************************************************************)
(* The staleness oracle: hasDocFile, needsDocUpdate, extractDocumentation  *)
(***************************************************************************)
\* latest time of day, and how many times the tool is started
MaxTime == 1
MaxRuns == 2
\* how many queries, writes and external commands fail in one behaviour
MaxFaults == 1

DocPrefix == <<"d", "o", "c", "_">>
TxtSuffix == <<".", "t", "x", "t">>

\* main.go:418: the file needsDocUpdate stats (a name in the flat sync directory)
DocFileChecked(pkg) == DocPrefix \o ReplaceSlash(pkg) \o TxtSuffix

\* main.go:502: the file extractDocumentation writes
DocFileWritten(module, pkg) ==
    DocPrefix \o ReplaceSlash(TrimPrefix(pkg, module \o <<Slash>>)) \o TxtSuffix

\* main.go:490: pkg[len(moduleName)+1:] panics when the index is past the end
DocArgDefined(module, pkg) == Len(module) + 1 <= Len(pkg)

\* What the queries of one call answer: each may fail, `git log` may also
\* print nothing or something that is no number.
AllOutcomes ==
    [pkgDir : {"ok", "fail"}, docGoStat : {"ok", "fail"}, stat : {"ok", "fail"},
     status : {"ok", "fail"}, log : {"ok", "fail", "empty", "unparsable"},
     write : {"ok", "fail"}]

QueryNames == {"pkgDir", "docGoStat", "stat", "status", "log", "write"}

FaultCount(f) == Cardinality({q \in QueryNames : f[q] # "ok"})

\* the outcomes with at most n failures
QueryOutcomes(n) == {f \in AllOutcomes : FaultCount(f) <= n}

\* what a failing step costs
Cost(ok) == IF ok THEN 0 ELSE 1

\* getPackageDir (main.go:366-381): a cached package needs no `go list`, which
\* fails for what is no package of the project, and may fail for one
getPackageDir(pkg, cache, f) ==
    IF pkg \in cache THEN [ok |-> TRUE, cache |-> cache]
    ELSE IF f.pkgDir = "fail" \/ pkg \notin DOMAIN PkgDirs
    THEN [ok |-> FALSE, cache |-> cache]
    ELSE [ok |-> TRUE, cache |-> cache \cup {pkg}]

\* hasDocFile (main.go:384-402)
hasDocFile(pkg, cache, f) ==
    LET d == getPackageDir(pkg, cache, f)
    IN IF ~d.ok THEN [has |-> FALSE, err |-> TRUE, cache |-> d.cache]
       ELSE IF f.docGoStat = "fail" THEN [has |-> FALSE, err |-> TRUE, cache |-> d.cache]
       ELSE [has |-> hasDocGo[pkg], err |-> FALSE, cache |-> d.cache]

\* what needsDocUpdate returns, the cache it leaves, and whether a query it
\* made failed or was indeterminate
Verdict(needs, err, cache, qfail) ==
    [needs |-> needs, err |-> err, cache |-> cache, qfail |-> qfail]

GitVerdictIgnoresStatus(pkg, cache, f) ==
    Verdict(f.log # "ok" \/ outDir[DocFileChecked(pkg)] < commitTime[pkg],
            FALSE, cache, f.log # "ok")

\* main.go:433-467: the version-control part of needsDocUpdate, reached with
\* the doc file present; cache is the cache hasDocFile left
GitVerdict(pkg, cache, f) ==
    LET d == getPackageDir(pkg, cache, f)
    IN IF ~d.ok THEN Verdict(FALSE, TRUE, d.cache, TRUE)
       ELSE IF f.status = "ok" /\ dirty[pkg] THEN Verdict(TRUE, FALSE, d.cache, FALSE)
       ELSE IF f.log # "ok" THEN Verdict(TRUE, FALSE, d.cache, TRUE)
       ELSE Verdict(outDir[DocFileChecked(pkg)] < commitTime[pkg], FALSE, d.cache,
                    f.status = "fail")

FreshnessVerdictTrustsNonGit(pkg, cache, f) ==
    IF f.stat = "fail" THEN Verdict(FALSE, TRUE, cache, TRUE)
    ELSE IF DocFileChecked(pkg) \notin DOMAIN outDir THEN Verdict(TRUE, FALSE, cache, FALSE)
    ELSE IF ~isGitRepo THEN Verdict(FALSE, FALSE, cache, FALSE)
    ELSE GitVerdict(pkg, cache, f)

\* main.go:417-431: needsDocUpdate once doc.go is known to exist
FreshnessVerdict(pkg, cache, f) ==
    IF f.stat = "fail" THEN Verdict(FALSE, TRUE, cache, TRUE)
    ELSE IF DocFileChecked(pkg) \notin DOMAIN outDir THEN Verdict(TRUE, FALSE, cache, FALSE)
    ELSE IF ~isGitRepo THEN Verdict(TRUE, FALSE, cache, FALSE)
    ELSE GitVerdict(pkg, cache, f)

needsDocUpdateIgnoresMarker(pkg, cache, f) ==
    LET h == hasDocFile(pkg, cache, f)
    IN IF h.err THEN Verdict(FALSE, TRUE, h.cache, TRUE)
       ELSE FreshnessVerdict(pkg, h.cache, f)

\* needsDocUpdate (main.go:405-468)
needsDocUpdate(pkg, cache, f) ==
    LET h == hasDocFile(pkg, cache, f)
    IN IF h.err THEN Verdict(FALSE, TRUE, h.cache, TRUE)
       ELSE IF ~h.has THEN Verdict(FALSE, FALSE, h.cache, FALSE)
       ELSE FreshnessVerdict(pkg, h.cache, f)

\* What extractDocumentation (main.go:471-514) does for pkg: "skip" (nothing
\* to do), "error" (an error value goes back to main), "panic" (the slice of
\* main.go:490 is out of range) or "wrote"; called says whether `go doc` ran.
ExtractOutcome(module, pkg, v, f) ==
    IF v.err THEN [kind |-> "error", called |-> FALSE]
    ELSE IF ~v.needs THEN [kind |-> "skip", called |-> FALSE]
    ELSE IF ~DocArgDefined(module, pkg) THEN [kind |-> "panic", called |-> FALSE]
    ELSE IF docOutcome[pkg] # "ok" THEN [kind |-> "error", called |-> TRUE]
    ELSE IF f.write = "fail" THEN [kind |-> "error", called |-> TRUE]
    ELSE [kind |-> "wrote", called |-> TRUE]

\* the facts of one call that the claims are about
CallRecord(pkg, v, o, f) ==
    [pkg |-> pkg,
     run |-> runNo,
     marker |-> hasDocGo[pkg],
     markerSeen |-> (pkg \in pkgCache \/ f.pkgDir = "ok") /\ f.docGoStat = "ok"
                    /\ hasDocGo[pkg],
     docPresent |-> f.stat = "ok" /\ DocFileChecked(pkg) \in DOMAIN outDir,
     dirty |-> dirty[pkg],
     dirtyReported |-> f.status = "ok" /\ dirty[pkg],
     stale |-> /\ f.log = "ok"
               /\ DocFileChecked(pkg) \in DOMAIN outDir
               /\ outDir[DocFileChecked(pkg)] < commitTime[pkg],
     qfail |-> v.qfail,
     needs |-> v.needs,
     err |-> v.err,
     called |-> o.called,
     kind |-> o.kind,
     regenBefore |-> regen[pkg]]

(***************************************************************************)
(* findAndSymlinkReadmes (main.go:517-594)                                 *)
(***************************************************************************)
ReadmePrefix == <<"r", "e", "a", "d", "m", "e", "_">>
SrcPrefix == <<"s", "r", "c", "_">>
ReadmeLower == <<"r", "e", "a", "d", "m", "e", ".", "m", "d">>

\* main.go:569: the name of the link to the README at rel
ReadmeLinkName(rel) == ReadmePrefix \o ReplaceSlash(rel)

\* main.go:526-537: the directory is an excluded directory or lies below one
ExcludedByToken(path, exclDirs) ==
    \E i \in 1..Len(exclDirs) :
        LET excludePath == IF IsAbs(exclDirs[i]) THEN exclDirs[i]
                           ELSE PathJoin(ProjectPath, exclDirs[i])
        IN path = excludePath \/ HasPrefix(path, excludePath \o <<Slash>>)

BelowPrunedNever(path, pruned) == FALSE

\* the path lies below a directory for which the callback returned SkipDir
BelowPruned(path, pruned) == \E d \in pruned : HasPrefix(path, d \o <<Slash>>)

\* main.go:541-560: `git check-ignore` answers, and says ignored; git ignores
\* everything below an ignored directory too
IgnoredByGit(rel, gitOk) ==
    /\ isGitRepo
    /\ gitOk
    /\ \E g \in ignored : rel = g \/ HasPrefix(rel, g \o <<Slash>>)

\* The walk of main.go:519-591 from entry i of the tree on.  lk: the links so
\* far; pruned: the directories skipped; gitOk: `git check-ignore` works;
\* linkOk: os.Symlink works.  An error of os.Symlink ends the walk.
RECURSIVE ReadmeWalk(_, _, _, _, _, _)
ReadmeWalk(i, lk, pruned, exclDirs, gitOk, linkOk) ==
    IF i > Len(Tree) THEN [links |-> lk, err |-> FALSE]
    ELSE LET e == Tree[i]
             path == Abs(e.rel)
             name == ReadmeLinkName(Rel(path))
         IN IF BelowPruned(path, pruned)
            THEN ReadmeWalk(i + 1, lk, pruned, exclDirs, gitOk, linkOk)
            ELSE IF e.dir /\ ExcludedByToken(path, exclDirs)
            THEN ReadmeWalk(i + 1, lk, pruned \cup {path}, exclDirs, gitOk, linkOk)
            ELSE IF IgnoredByGit(e.rel, gitOk)
            THEN ReadmeWalk(i + 1, lk, IF e.dir THEN pruned \cup {path} ELSE pruned,
                            exclDirs, gitOk, linkOk)
            ELSE IF ~e.dir /\ ToLower(BaseName(path)) = ReadmeLower
            THEN IF name \in DOMAIN lk
                 THEN ReadmeWalk(i + 1, lk, pruned, exclDirs, gitOk, linkOk)
                 ELSE IF ~linkOk THEN [links |-> lk, err |-> TRUE]
                 ELSE ReadmeWalk(i + 1, (name :> path) @@ lk, pruned, exclDirs,
                                 gitOk, linkOk)
            ELSE ReadmeWalk(i + 1, lk, pruned, exclDirs, gitOk, linkOk)

findAndSymlinkReadmes(lk, exclDirs, gitOk, linkOk) ==
    ReadmeWalk(1, lk, {}, exclDirs, gitOk, linkOk)

(***************************************************************************)
(* symlinkDirectoryFiles (main.go:597-685)                                 *)
(***************************************************************************)
\* main.go:615
DirPrefix(dirPath) == SrcPrefix \o ReplaceSlash(Rel(dirPath)) \o <<"_">>

\* main.go:657: the name of the link to a file found by the walk of dirPath
SourceLinkName(dirPath, file) == DirPrefix(dirPath) \o file

\* The walk of main.go:626-678 over dirPath and everything below it.  The
\* callback returns nil for a subdirectory, so the walk goes on into it;
\* os.Symlink fails when the name exists (main.go:660-669 only logs that).
RECURSIVE SourceWalk(_, _, _, _, _)
SourceWalk(i, lk, dirPath, gitOk, linkOk) ==
    IF i > Len(Tree) THEN [links |-> lk, err |-> FALSE]
    ELSE LET e == Tree[i]
             path == Abs(e.rel)
             name == SourceLinkName(dirPath, BaseName(path))
         IN IF ~(path = dirPath \/ HasPrefix(path, dirPath \o <<Slash>>))
            THEN SourceWalk(i + 1, lk, dirPath, gitOk, linkOk)
            ELSE IF e.dir THEN SourceWalk(i + 1, lk, dirPath, gitOk, linkOk)
            ELSE IF IgnoredByGit(e.rel, gitOk)
            THEN SourceWalk(i + 1, lk, dirPath, gitOk, linkOk)
            ELSE IF Ext(BaseName(path)) \in Extensions
            THEN IF name \in DOMAIN lk \/ ~linkOk THEN [links |-> lk, err |-> TRUE]
                 ELSE SourceWalk(i + 1, (name :> path) @@ lk, dirPath, gitOk, linkOk)
            ELSE SourceWalk(i + 1, lk, dirPath, gitOk, linkOk)

symlinkDirectoryFiles(dirPath, lk, gitOk, linkOk) ==
    SourceWalk(1, lk, dirPath, gitOk, linkOk)

\* main.go:154-156: the included directories, joined under the module name,
\* are appended to the included packages
RECURSIVE AppendIncludedDirs(_, _, _)
AppendIncludedDirs(inclPkgs, inclDirs, module) ==
    IF inclDirs = <<>> THEN inclPkgs
    ELSE AppendIncludedDirs(Append(inclPkgs, PathJoin(module, Head(inclDirs))),
                            Tail(inclDirs), module)

(***************************************************************************)
(* main (main.go:16-182), one action per step                              *)
(***************************************************************************)
\* main.go:96-97
Categorize ==
    /\ pc = "parsed"
    /\ LET inc == categorizeIncludesExcludes(includeList, moduleName)
           exc == categorizeIncludesExcludes(excludeList, moduleName)
       IN /\ includeDirsList' = inc.dirs
          /\ includePkgsList' = inc.pkgs
          /\ excludeDirsList' = exc.dirs
          /\ excludePkgsList' = exc.pkgs
    /\ pc' = "categorized"
    /\ UNCHANGED <<inputVars, nameVars, callVars, packages, idx, runNo, pkgCache, processedDirs, outDir,
                   links, envVars, histVars>>

\* main.go:106-127: createSyncDirectory, which empties the directory under
\* -clean, and discoverPackages; either may fail, and main exits with 1
Prepare ==
    /\ pc = "categorized"
    /\ \E result \in {"ok", "mkdirFails", "listFails"} :
        /\ faults + Cost(result = "ok") <= MaxFaults
        /\ faults' = faults + Cost(result = "ok")
        /\ pc' = IF result = "ok" THEN "discovered" ELSE "exit1"
        /\ IF cleanFlag /\ result # "mkdirFails"
           THEN outDir' = Empty /\ links' = Empty
           ELSE UNCHANGED <<outDir, links>>
    /\ UNCHANGED <<inputVars, nameVars, callVars, listVars, packages, idx, runNo, pkgCache, processedDirs,
                   envVars, last, regen, succ1, names1, changed>>

\* main.go:131, up to the head of the loop at main.go:138
Filter ==
    /\ pc = "discovered"
    /\ packages' = filterPackages(allPackages, excludeDirsList, excludePkgsList, moduleName)
    /\ pc' = "docs"
    /\ idx' = 1
    /\ UNCHANGED <<inputVars, nameVars, callVars, listVars, runNo, pkgCache, processedDirs, outDir, links,
                   envVars, histVars>>

\* one iteration of the loop at main.go:138-142
ExtractDocumentation ==
    /\ pc = "docs"
    /\ idx <= Len(packages)
    /\ \E f \in QueryOutcomes(MaxFaults - faults) :
        LET pkg == packages[idx]
            v == needsDocUpdate(pkg, pkgCache, f)
            o == ExtractOutcome(moduleName, pkg, v, f)
        IN /\ last' = CallRecord(pkg, v, o, f)
           /\ pkgCache' = v.cache
           /\ faults' = faults + FaultCount(f)
           /\ IF o.kind = "wrote"
              THEN /\ outDir' = (DocFileWritten(moduleName, pkg) :> clock) @@ outDir
                   /\ regen' = [regen EXCEPT ![pkg] = TRUE]
                   /\ succ1' = IF runNo = 1 THEN succ1 \cup {pkg} ELSE succ1
              ELSE UNCHANGED <<outDir, regen, succ1>>
           /\ IF o.kind = "panic"
              THEN pc' = "crashed" /\ idx' = idx
              ELSE pc' = pc /\ idx' = idx + 1
    /\ UNCHANGED <<inputVars, nameVars, callVars, listVars, packages, runNo, processedDirs, links, envVars,
                   names1, changed>>

\* main.go:145-156: findAndSymlinkReadmes, whose error makes main exit with
\* 1, then the included directories join the included packages
FindReadmes ==
    /\ pc = "docs"
    /\ idx > Len(packages)
    /\ \E gitOk \in BOOLEAN, linkOk \in BOOLEAN :
        LET r == findAndSymlinkReadmes(links, excludeDirsList, gitOk, linkOk)
        IN /\ gitOk \/ isGitRepo
           /\ faults + Cost(gitOk) + Cost(linkOk) <= MaxFaults
           /\ faults' = faults + Cost(gitOk) + Cost(linkOk)
           /\ links' = r.links
           /\ pc' = IF r.err THEN "exit1" ELSE "sources"
           /\ includePkgsList' = IF r.err THEN includePkgsList
                                 ELSE AppendIncludedDirs(includePkgsList, includeDirsList,
                                                         moduleName)
    /\ idx' = 1
    /\ processedDirs' = {}
    /\ last' = NoCall
    /\ names1' = IF runNo = 1 THEN DOMAIN outDir ELSE names1
    /\ UNCHANGED <<inputVars, nameVars, callVars, includeDirsList, excludeDirsList, excludePkgsList, packages,
                   runNo, pkgCache, outDir, envVars, regen, succ1, changed>>

AlreadyProcessedNever(pkgDir, processed) == FALSE

\* main.go:168: the directory was handed to symlinkDirectoryFiles before
AlreadyProcessed(pkgDir, processed) == pkgDir \in processed

\* one iteration of the loop at main.go:159-174
CollectSources ==
    /\ pc = "sources"
    /\ idx <= Len(includePkgsList)
    /\ \E goList \in {"ok", "fail"}, gitOk \in BOOLEAN, linkOk \in BOOLEAN :
        LET pkg == includePkgsList[idx]
            d == getPackageDir(pkg, pkgCache, [pkgDir |-> goList])
            pkgDir == Abs(PkgDirs[pkg])
            cost == Cost(goList = "ok") + Cost(gitOk) + Cost(linkOk)
        IN /\ gitOk \/ isGitRepo
           /\ faults + cost <= MaxFaults
           /\ faults' = faults + cost
           /\ pkgCache' = d.cache
           /\ IF d.ok /\ ~AlreadyProcessed(pkgDir, processedDirs)
              THEN /\ links' = symlinkDirectoryFiles(pkgDir, links, gitOk, linkOk).links
                   /\ processedDirs' = processedDirs \cup {pkgDir}
                   /\ collected' = Append(collected, pkgDir)
              ELSE UNCHANGED <<links, processedDirs, collected>>
    /\ idx' = idx + 1
    /\ UNCHANGED <<inputVars, nameVars, listVars, packages, pc, runNo, outDir, envVars, last, regen,
                   succ1, names1, changed>>

\* main.go:176-181: generateDirectoryStructure; without the tree command, or
\* when it fails, main exits with 1
GenerateTree ==
    /\ pc = "sources"
    /\ idx > Len(includePkgsList)
    /\ \E treeOk \in BOOLEAN :
        /\ faults + Cost(treeOk) <= MaxFaults
        /\ faults' = faults + Cost(treeOk)
        /\ pc' = IF treeOk THEN "done" ELSE "exit1"
    /\ UNCHANGED <<inputVars, nameVars, callVars, listVars, packages, idx, runNo, pkgCache, processedDirs,
                   outDir, links, envVars, last, regen, succ1, names1, changed>>

(***************************************************************************)
(* The selection engine on its own: main.go:92-131 for every input         *)
(***************************************************************************)
\* `go list ./...` prints import paths of the module when its name is known
Discoverable(module) ==
    {q \in SeqsUpTo(PackageIds, MaxPkgs) :
        /\ NoRepeat(q)
        /\ module # <<>> => \A i \in 1..Len(q) : IsPackageToken(q[i], module)}

\* the state main starts in, whatever the sync directory holds
Started ==
    /\ includeDirsList = <<>>
    /\ includePkgsList = <<>>
    /\ excludeDirsList = <<>>
    /\ excludePkgsList = <<>>
    /\ packages = <<>>
    /\ idx = 0
    /\ pkgCache = {}
    /\ processedDirs = {}
    /\ clock = 0
    /\ dirty = [p \in PackageIds |-> FALSE]
    /\ commitTime = [p \in PackageIds |-> 0]
    /\ last = NoCall
    /\ regen = [p \in PackageIds |-> FALSE]
    /\ succ1 = {}
    /\ names1 = {}
    /\ changed = FALSE
    /\ faults = 0
    /\ collected = <<>>

\* no output file name is asked for apart from the run
NothingToName == pending = <<>> /\ named = <<>>

\* a project as the first run finds it: no link in the sync directory
Untouched == links = Empty /\ NothingToName /\ Started

InitFilter ==
    /\ moduleName \in ModuleNames
    /\ allPackages \in Discoverable(moduleName)
    /\ excludeList \in SeqsUpTo(Tokens, MaxTokens)
    /\ includeList = <<>>
    /\ cleanFlag = FALSE
    /\ pc = "parsed"
    /\ runNo = 1
    /\ isGitRepo = FALSE
    /\ outDir = Empty
    /\ hasDocGo = [p \in PackageIds |-> FALSE]
    /\ docOutcome = [p \in PackageIds |-> "ok"]
    /\ ignored = {}
    /\ Untouched

NextFilter == Categorize \/ Prepare \/ Filter

SpecFilter == InitFilter /\ [][NextFilter]_vars

(***************************************************************************)
(* Claims about the selection engine, checked under SpecFilter             *)
(***************************************************************************)
\* the excluded entries of the run: the package tokens of -exclude, and the
\* directory tokens joined under the module name
ExcludedEntries ==
    Range(excludePkgsList) \cup {PathJoin(moduleName, d) : d \in Range(excludeDirsList)}

HasExcludedPrefix(pkg) == \E e \in ExcludedEntries : HasPrefix(pkg, e)
NotExcluded(pkg) == ~HasExcludedPrefix(pkg)

\* C7: filterPackages never returns a package that has an excluded entry (an
\* excluded package token, or an excluded directory token joined under the
\* module name) as a prefix; module m, packages {m, m/a}, exclude-dirs {a}
\* gives {m}.
C7_NoExcludedPackageReturned ==
    pc = "docs" =>
        /\ \A i \in 1..Len(packages) : ~HasExcludedPrefix(packages[i])
        /\ (moduleName = M /\ allPackages = <<M, MA>> /\ excludeList = <<A>>)
               => packages = <<M>>

\* an excluded directory has removed a package below it and kept another
C7_Witness ==
    /\ pc = "docs"
    /\ moduleName = M
    /\ excludeDirsList = <<A>>
    /\ allPackages = <<M, MA_A>>
    /\ packages = <<M>>

\* C8: the result of filterPackages is exactly the discovered packages without
\* an excluded prefix, in discovery order, and the whole list when no exclude
\* token is given.
C8_ExactlyNonExcludedInOrder ==
    pc = "docs" =>
        /\ packages = SelectSeq(allPackages, NotExcluded)
        /\ excludeList = <<>> => packages = allPackages

\* a package is dropped between two that are kept, and their order is kept
C8_Witness ==
    /\ pc = "docs"
    /\ Len(allPackages) = 2
    /\ excludeList # <<>>
    /\ \E i \in 1..2 : HasExcludedPrefix(allPackages[i]) /\ packages = <<allPackages[3 - i]>>

IsPkgTok(t) == t = moduleName \/ HasPrefix(t, moduleName \o <<Slash>>)
IsDirTok(t) == ~IsPkgTok(t)

\* C10: categorizeIncludesExcludes puts every token in exactly one of its two
\* outputs, in input order: in the packages iff the token equals moduleName or
\* starts with moduleName + "/", in the directories otherwise.
C10_CategorizeIsPartition ==
    pc # "parsed" =>
        /\ excludePkgsList = SelectSeq(excludeList, IsPkgTok)
        /\ excludeDirsList = SelectSeq(excludeList, IsDirTok)
        /\ Len(excludePkgsList) + Len(excludeDirsList) = Len(excludeList)
        /\ includePkgsList = SelectSeq(includeList, IsPkgTok)
        /\ includeDirsList = SelectSeq(includeList, IsDirTok)

\* a list with one token of each kind has been split
C10_Witness ==
    /\ pc = "categorized"
    /\ moduleName = M
    /\ excludeList = <<A, MA>>
    /\ excludeDirsList = <<A>>
    /\ excludePkgsList = <<MA>>

\* C11: with an empty moduleName categorizeIncludesExcludes classifies every
\* token as a directory: its package list is empty for every token list,
\* tokens beginning with "/" included.
C11_EmptyModuleAllDirectories ==
    (pc # "parsed" /\ moduleName = <<>>) =>
        /\ excludePkgsList = <<>>
        /\ includePkgsList = <<>>
        /\ excludeDirsList = excludeList

\* the package is an excluded entry or lies below one in the package tree
AtOrBelowExcluded(pkg) ==
    \E e \in ExcludedEntries : pkg = e \/ HasPrefix(pkg, e \o <<Slash>>)

\* C20: filterPackages removes a package only if it equals an excluded entry
\* or is a path descendant of one; a sibling that merely shares a leading
\* string with an excluded entry (m/aa when a is excluded) is kept.
C20_ExclusionRespectsSegments ==
    pc = "docs" =>
        /\ \A i \in 1..Len(allPackages) :
               allPackages[i] \notin Range(packages) => AtOrBelowExcluded(allPackages[i])
        /\ (moduleName = M /\ allPackages = <<MA, MAA>> /\ excludeList = <<A>>)
               => packages = <<MAA>>

(***************************************************************************)
(* Repeated runs of the documentation step (main.go:137-142, without       *)
(* filters and without -clean) over a project whose sources change         *)
(* between the runs                                                        *)
(***************************************************************************)
DocPkgs == <<M, MA>>

\* the packages whose directories the developer edits and commits between runs
Worked == {MA}

\* the sync directory before the first run: empty, or holding the doc files an
\* earlier run left behind under the names needsDocUpdate looks for
LeftBehind == {[n \in S |-> 0] : S \in {{}, {DocFileChecked(p) : p \in Range(DocPkgs)}}}

\* the functions on the package identifiers that are dflt outside pkgs
OnlyFor(pkgs, S, dflt) ==
    {h \in [PackageIds -> S] : \A p \in PackageIds \ pkgs : h[p] = dflt}

InitDoc ==
    /\ moduleName \in ModuleNames
    /\ allPackages = DocPkgs
    /\ includeList = <<>>
    /\ excludeList = <<>>
    /\ cleanFlag = FALSE
    /\ pc = "idle"
    /\ runNo = 0
    /\ isGitRepo \in BOOLEAN
    /\ outDir \in LeftBehind
    /\ hasDocGo \in OnlyFor(Range(DocPkgs), BOOLEAN, FALSE)
    /\ docOutcome \in OnlyFor(Range(DocPkgs), {"ok", "bad"}, "ok")
    /\ ignored = {}
    /\ Untouched

\* the tool is started: main.go:16-131 with no filter leaves every package
StartRun ==
    /\ pc = "idle"
    /\ runNo < MaxRuns
    /\ pc' = "docs"
    /\ idx' = 1
    /\ runNo' = runNo + 1
    /\ pkgCache' = {}
    /\ packages' = allPackages
    /\ UNCHANGED <<inputVars, nameVars, callVars, listVars, processedDirs, outDir, links, envVars, histVars>>

\* the loop at main.go:138 is over; the rest of the run leaves the doc files alone
FinishDocs ==
    /\ pc = "docs"
    /\ idx > Len(packages)
    /\ pc' = "idle"
    /\ names1' = IF runNo = 1 THEN DOMAIN outDir ELSE names1
    /\ last' = NoCall
    /\ UNCHANGED <<inputVars, nameVars, callVars, listVars, packages, idx, runNo, pkgCache, processedDirs,
                   outDir, links, envVars, regen, succ1, changed, faults>>

\* time passes between two runs (what came before the first run is in InitDoc)
Tick ==
    /\ pc = "idle"
    /\ runNo > 0
    /\ clock < MaxTime
    /\ clock' = clock + 1
    /\ UNCHANGED <<inputVars, nameVars, callVars, listVars, packages, pc, idx, runNo, pkgCache, processedDirs,
                   outDir, links, histVars, isGitRepo, hasDocGo, dirty, commitTime,
                   docOutcome, ignored>>

\* the developer commits the directory of package p
Commit(p) ==
    /\ pc = "idle"
    /\ isGitRepo
    /\ runNo > 0
    /\ dirty[p] \/ commitTime[p] < clock
    /\ commitTime' = [commitTime EXCEPT ![p] = clock]
    /\ dirty' = [dirty EXCEPT ![p] = FALSE]
    /\ regen' = [regen EXCEPT ![p] = FALSE]
    /\ changed' = TRUE
    /\ UNCHANGED <<inputVars, nameVars, callVars, listVars, packages, pc, idx, runNo, pkgCache, processedDirs,
                   outDir, links, isGitRepo, hasDocGo, docOutcome, ignored, clock, last,
                   succ1, names1, faults>>

\* the developer edits a file of package p without committing
Edit(p) ==
    /\ pc = "idle"
    /\ isGitRepo
    /\ runNo > 0
    /\ ~dirty[p]
    /\ dirty' = [dirty EXCEPT ![p] = TRUE]
    /\ regen' = [regen EXCEPT ![p] = FALSE]
    /\ changed' = TRUE
    /\ UNCHANGED <<inputVars, nameVars, callVars, listVars, packages, pc, idx, runNo, pkgCache, processedDirs,
                   outDir, links, isGitRepo, hasDocGo, commitTime, docOutcome, ignored,
                   clock, last, succ1, names1, faults>>

NextDoc ==
    \/ StartRun
    \/ ExtractDocumentation
    \/ FinishDocs
    \/ Tick
    \/ \E p \in Worked : Commit(p)
    \/ \E p \in Worked : Edit(p)

SpecDoc == InitDoc /\ [][NextDoc]_vars

(***************************************************************************)
(* Claims about the staleness oracle, checked under SpecDoc                *)
(***************************************************************************)
Called == last # NoCall

\* a step of the loop at main.go:138 for a package without doc.go
NoMarkerCall == pc = "docs" /\ idx <= Len(packages) /\ ~hasDocGo[packages[idx]]

\* C3: for a package without a doc.go marker needsDocUpdate returns false and
\* extractDocumentation neither runs the doc extractor nor writes a file,
\* whatever the other inputs are.
C3_NoMarkerNoExtraction ==
    [][NoMarkerCall => /\ ~last'.needs
                       /\ ~last'.called
                       /\ outDir' = outDir]_vars

\* a package without doc.go whose doc file exists, in a project without
\* version control, has been skipped
C3_Witness ==
    /\ Called
    /\ ~last.marker
    /\ last.docPresent
    /\ ~isGitRepo
    /\ last.kind = "skip"

C6_UncommittedChangesUpdate ==
    (Called /\ isGitRepo /\ last.markerSeen /\ last.docPresent /\ last.dirtyReported)
        => (last.needs /\ ~last.err)

\* uncommitted changes force an update of a doc file that is not older than
\* the last commit
C6_Witness ==
    /\ Called
    /\ isGitRepo
    /\ last.markerSeen
    /\ last.docPresent
    /\ last.dirtyReported
    /\ ~last.stale
    /\ last.needs

\* C2: under version control, with a doc.go marker and no uncommitted changes,
\* a doc file older than the last commit means update; and once
\* extractDocumentation has regenerated the doc, the next needsDocUpdate of
\* the package returns false as long as nothing is committed.
C2_StalenessMonotonicity ==
    (Called /\ isGitRepo /\ last.markerSeen /\ ~last.dirty) =>
        /\ (last.docPresent /\ last.stale) => last.needs
        /\ (last.regenBefore /\ ~last.qfail) => ~last.needs

\* C1: on a second run over unchanged, committed sources no package whose doc
\* was written by the first run is extracted again, and the second run leaves
\* the same file names as the first.
C1_SecondRunIsNoOp ==
    /\ (Called /\ last.run = 2 /\ isGitRepo /\ ~changed /\ ~last.dirty
            /\ last.pkg \in succ1 /\ ~last.qfail)
           => (~last.needs /\ ~last.called)
    /\ (pc = "idle" /\ runNo = 2 /\ ~changed /\ faults = 0) => DOMAIN outDir = names1

\* C5: for a package with a doc.go marker, a failed or indeterminate query of
\* needsDocUpdate always ends in the decision to update.
C5_FailedQueryMeansUpdate ==
    (Called /\ last.marker /\ last.qfail) => (last.needs /\ ~last.err)

\* C18: the file needsDocUpdate examines for a package is the file
\* extractDocumentation writes for it, so the staleness check that follows a
\* successful extraction finds the file that was written.
C18_DocFilePathAgreement ==
    /\ (Called /\ last.kind = "wrote")
           => DocFileChecked(last.pkg) = DocFileWritten(moduleName, last.pkg)
    /\ (Called /\ last.regenBefore /\ last.markerSeen /\ ~last.qfail)
           => last.docPresent

\* C19: for every discovered package, the root package and an empty
\* moduleName included, extractDocumentation writes, skips or returns an
\* error; it never crashes the process, so the loop at main.go:138 goes on.
C19_ExtractionNeverCrashes ==
    /\ pc # "crashed"
    /\ Called => last.kind \in {"wrote", "skip", "error"}

(***************************************************************************)
(* Whole runs of main over the project, for every -include and -exclude    *)
(***************************************************************************)
\* -include / -exclude tokens: a directory, and the same directory as a package
RunTokens == {A, MA}

\* version control and what it ignores
GitStates == {<<FALSE, {}>>, <<TRUE, {}>>, <<TRUE, {<<"a", "/", "a">>}>>}

\* the packages that hold a doc.go (with one in the root package every first
\* run ends at main.go:490)
Documented == {MA, MAA}

\* the sync directory before the run: empty, or holding a doc file of an
\* earlier run
LeftInSyncDir == {Empty, DocFileWritten(M, MAA) :> 0}

InitRun ==
    /\ moduleName = M
    /\ allPackages = ProjectPackages
    /\ includeList \in SeqsUpTo(RunTokens, MaxTokens)
    /\ excludeList \in SeqsUpTo(RunTokens, MaxTokens)
    /\ cleanFlag \in BOOLEAN
    /\ pc = "parsed"
    /\ runNo = 1
    /\ \E g \in GitStates : isGitRepo = g[1] /\ ignored = g[2]
    /\ outDir \in LeftInSyncDir
    /\ hasDocGo = [p \in PackageIds |-> p \in Documented]
    /\ docOutcome = [p \in PackageIds |-> "ok"]
    /\ Untouched

Next ==
    \/ Categorize
    \/ Prepare
    \/ Filter
    \/ ExtractDocumentation
    \/ FindReadmes
    \/ CollectSources
    \/ GenerateTree

Spec == InitRun /\ [][Next]_vars

(***************************************************************************)
(* Claims about whole runs, checked under Spec                             *)
(***************************************************************************)
\* what an -include token selects: a package, or a directory joined under the
\* module name (main.go:155)
IncludedEntries ==
    {IF IsPackageToken(t, moduleName) THEN t ELSE PathJoin(moduleName, t) :
        t \in Range(includeList)}

\* the package is selected by an -include token and excluded by an -exclude token
IncludedAndExcluded(p) == p \in IncludedEntries /\ HasExcludedPrefix(p)

\* the links the source collection made to files in or below the directory of p
SourceLinksOf(p) ==
    {n \in DOMAIN links :
        /\ HasPrefix(n, SrcPrefix)
        /\ HasPrefix(links[n], Abs(PkgDirs[p]) \o <<Slash>>)}

\* C9: a package matched by an include token and by an exclude token is
\* treated as excluded throughout the run: no doc file is extracted for it and
\* none of its source files is linked into the sync directory.
C9_ExclusionWinsOverInclusion ==
    pc # "parsed" =>
        \A p \in DOMAIN PkgDirs :
            IncludedAndExcluded(p) => (p \notin succ1 /\ SourceLinksOf(p) = {})


\* the links made by the source collection
SourceLinks == {n \in DOMAIN links : HasPrefix(n, SrcPrefix)}

\* path is a file directly in directory d
ImmediateChild(path, d) == path = d \o <<Slash>> \o BaseName(path)

\* C12: source collection is not recursive: every source link points to a
\* file with an allowed extension that is an immediate child of a directory
\* handed to symlinkDirectoryFiles; nothing below a subdirectory is linked.
C12_SourceCollectionNonRecursive ==
    \A n \in SourceLinks :
        /\ Ext(BaseName(links[n])) \in Extensions
        /\ \E d \in processedDirs : ImmediateChild(links[n], d)

\* a step inside the loop over the packages (main.go:138) or over the
\* included packages (main.go:159) goes on to the next item
LoopsGoOn ==
    /\ (pc = "docs" /\ idx <= Len(packages)) => (pc' = "docs" /\ idx' = idx + 1)
    /\ (pc = "sources" /\ idx <= Len(includePkgsList))
           => (pc' = "sources" /\ idx' = idx + 1)

\* the run ends with a non-zero exit only where it acquires its resources:
\* the sync directory and the package list (main.go:112-127)
OnlyAcquisitionIsFatal == pc' = "exit1" => pc = "categorized"

\* C15: the failure of one item (a package's documentation, a directory's
\* collection, a version-control query, a README link, the tree renderer)
\* never ends the run or a loop; only a failure to create the sync directory
\* or to discover the packages ends the run with a non-zero exit.
C15_OnlyAcquisitionFailuresAbort ==
    [][LoopsGoOn /\ OnlyAcquisitionIsFatal]_vars

\* the links made by findAndSymlinkReadmes
ReadmeLinks == {n \in DOMAIN links : HasPrefix(n, ReadmePrefix)}

\* the directory an -exclude directory token names (main.go:527-530)
ExcludedDir(token) == IF IsAbs(token) THEN token ELSE PathJoin(ProjectPath, token)

\* path lies at any depth below directory d
Below(path, d) == HasPrefix(path, d \o <<Slash>>)

\* C16: findAndSymlinkReadmes prunes the subtree of a directory that matches
\* an excluded directory token or that version control reports ignored: no
\* README at any depth below it is linked.
C16_ReadmeWalkPrunesSubtrees ==
    \A n \in ReadmeLinks :
        /\ \A i \in 1..Len(excludeDirsList) :
               ~Below(links[n], ExcludedDir(excludeDirsList[i]))
        /\ (isGitRepo /\ faults = 0) => \A g \in ignored : ~Below(links[n], Abs(g))

\* the walk has linked the READMEs of the root and of a, and none below the
\* ignored directory a/a, where one lies
C16_Witness ==
    /\ pc = "sources"
    /\ faults = 0
    /\ isGitRepo
    /\ ignored = {AslashA}
    /\ excludeDirsList = <<>>
    /\ ReadmeLinks = {ReadmeLinkName(ReadmeName), ReadmeLinkName(InDir(A, ReadmeName))}

\* C17: within one run symlinkDirectoryFiles is called at most once for a
\* package directory, also when several include tokens lead to it.
C17_CollectedAtMostOnce == NoRepeat(collected)

\* the directory token a and the package token m/a lead to the directory
\* /p/a, which has been collected once
C17_Witness ==
    /\ pc = "sources"
    /\ includeList = <<MA, A>>
    /\ includePkgsList = <<MA, MA>>
    /\ idx = 3
    /\ collected = <<Abs(A)>>

(***************************************************************************)
(* A run of main over the sync directory an earlier run left behind        *)
(***************************************************************************)
\* what a run with -include=a left in the sync directory before a/a/y.go and
\* a/z.go were added to the project: the README links and the link to a/x.go
LeftLinks ==
    (ReadmePrefix \o ReplaceSlash(ReadmeName) :> Abs(ReadmeName))
    @@ (ReadmePrefix \o ReplaceSlash(InDir(A, ReadmeName)) :> Abs(InDir(A, ReadmeName)))
    @@ (DirPrefix(Abs(A)) \o GoFile("x") :> Abs(InDir(A, GoFile("x"))))

InitRerun ==
    /\ moduleName = M
    /\ allPackages = ProjectPackages
    /\ includeList \in SeqsUpTo(RunTokens, MaxTokens)
    /\ excludeList = <<>>
    /\ cleanFlag \in BOOLEAN
    /\ pc = "parsed"
    /\ runNo = 2
    /\ \E g \in GitStates : isGitRepo = g[1] /\ ignored = g[2]
    /\ outDir \in LeftInSyncDir
    /\ hasDocGo = [p \in PackageIds |-> p \in Documented]
    /\ docOutcome = [p \in PackageIds |-> "ok"]
    /\ links = LeftLinks
    /\ NothingToName
    /\ Started

SpecRerun == InitRerun /\ [][Next]_vars

(***************************************************************************)
(* Claims about linking over existing links, checked under SpecRerun       *)
(***************************************************************************)
\* entry e of the tree is a file directly in d that the source collection of
\* d is to link
ToBeLinked(e, d) ==
    /\ ~e.dir
    /\ ImmediateChild(Abs(e.rel), d)
    /\ Ext(BaseName(e.rel)) \in Extensions
    /\ ~IgnoredByGit(e.rel, TRUE)

\* C13: a link that already exists is taken as satisfied by the README
\* linking and by the source linking: no error comes of it and the walk goes
\* on, so a run without -clean links the source files added since.
C13_LinkingIsIdempotent ==
    faults = 0 =>
        /\ pc # "exit1"
        /\ \A d \in processedDirs : \A i \in 1..Len(Tree) :
               ToBeLinked(Tree[i], d) =>
                   DirPrefix(d) \o BaseName(Tree[i].rel) \in DOMAIN links

(***************************************************************************)
(* The output file names in the flat sync directory (main.go:502, 569,     *)
(* 615 and 657), derived for every few sources of a project                *)
(***************************************************************************)
\* how many sources are named in one behaviour
MaxSources == 2

A_A == <<"a", "_", "a">>

\* a source of an output file: a package (doc), a README path relative to the
\* project (readme), or a directory relative to the project and a file name
\* in it (src)
Source(cat, path, file) == [cat |-> cat, path |-> path, file |-> file]

\* packages, READMEs and source files of a project with the directories a,
\* a/a and a_a
NamedSources ==
    {Source("doc", p, <<>>) : p \in {MA, MA_A, M \o <<Slash>> \o A_A}}
    \cup {Source("readme", r, <<>>) :
             r \in {ReadmeName, InDir(A, ReadmeName), InDir(AslashA, ReadmeName),
                    InDir(A_A, ReadmeName)}}
    \cup {Source("src", AslashA, GoFile("y")), Source("src", A_A, GoFile("y")),
          Source("src", A, <<"a", "_">> \o GoFile("y")), Source("src", A, GoFile("y"))}

\* the name of the output file of a source
OutputName(module, s) ==
    CASE s.cat = "doc" -> DocFileWritten(module, s.path)
      [] s.cat = "readme" -> ReadmeLinkName(s.path)
      [] s.cat = "src" -> SourceLinkName(Abs(s.path), s.file)

InitNames ==
    /\ moduleName \in ModuleNames
    /\ allPackages = <<>>
    /\ includeList = <<>>
    /\ excludeList = <<>>
    /\ cleanFlag = FALSE
    /\ pc = "naming"
    /\ runNo = 1
    /\ isGitRepo = FALSE
    /\ outDir = Empty
    /\ hasDocGo = [p \in PackageIds |-> FALSE]
    /\ docOutcome = [p \in PackageIds |-> "ok"]
    /\ ignored = {}
    /\ links = Empty
    /\ pending \in {q \in SeqsUpTo(NamedSources, MaxSources) : NoRepeat(q)}
    /\ named = <<>>
    /\ Started

\* the name of the next source is derived
DeriveName ==
    /\ pc = "naming"
    /\ pending # <<>>
    /\ named' = Append(named, [source |-> Head(pending),
                               name |-> OutputName(moduleName, Head(pending))])
    /\ pending' = Tail(pending)
    /\ UNCHANGED <<inputVars, listVars, packages, pc, idx, runNo, pkgCache, processedDirs,
                   outDir, links, envVars, histVars, callVars>>

NextNames == DeriveName

SpecNames == InitNames /\ [][NextNames]_vars

\* C14: two distinct sources (category and source path) never get the same
\* output file name in the flat sync directory.
C14_NoFilenameCollision ==
    \A i, j \in 1..Len(named) :
        named[i].source # named[j].source => named[i].name # named[j].name

====
